---------------------------- MODULE Spec2Model ----------------------------
(***************************************************************************)
(* The Touchpoint legal-intake dashboard (app.py) as a state machine: one  *)
(* run of the script from load_rows to the counsel tab.                    *)
(*                                                                         *)
(* Representation of the Python values:                                    *)
(*   str    a sequence of one-character strings, "" is << >>               *)
(*   None   the one-element sequence None (no str has that element)        *)
(*   date   <<year, month, day>>                                           *)
(*   float  a fraction <<num, den>> with den > 0, so that sum(v) / len(v)  *)
(*          is exact                                                       *)
(*   dict   a function (record) from the column names                      *)
(*   list   a sequence                                                     *)
(***************************************************************************)
EXTENDS Integers, Sequences, FiniteSets, TLC

VARIABLES
    pc,             \* position of the script run
    csv,            \* the rows csv.DictReader yields for CSV_PATH
    ui,             \* what the sidebar widgets hold for this run
    today,          \* date.today()
    rows_all,       \* app.py:221
    date_range,     \* app.py:232
    filters,        \* app.py:266
    keywords,       \* app.py:261
    rows,           \* app.py:274, 278
    kpis,           \* app.py:281
    counsel_data,   \* app.py:140
    counsel_stats,  \* app.py:411
    error           \* the exception that ended the run, if any

vars == <<pc, csv, ui, today, rows_all, date_range, filters, keywords, rows,
          kpis, counsel_data, counsel_stats, error>>

-----------------------------------------------------------------------------
(* Bounds of the model *)

\* the longest CSV file read
MaxRows == 2

-----------------------------------------------------------------------------
(* Python values *)

None == <<"None">>

\* the printable ASCII characters of the model in code-point order
Ascii ==
    << " ", "!", "\"", "#", "$", "%", "&", "'", "(", ")", "*", "+", ",", "-",
       ".", "/", "0", "1", "2", "3", "4", "5", "6", "7", "8", "9", ":", ";",
       "<", "=", ">", "?", "@", "A", "B", "C", "D", "E", "F", "G", "H", "I",
       "J", "K", "L", "M", "N", "O", "P", "Q", "R", "S", "T", "U", "V", "W",
       "X", "Y", "Z", "[", "\\", "]", "^", "_", "a", "b", "c", "d", "e", "f",
       "g", "h", "i", "j", "k", "l", "m", "n", "o", "p", "q", "r", "s", "t",
       "u", "v", "w", "x", "y", "z", "{", "|", "}", "~" >>

\* the place of each character in the code-point order
OrdOf == [c \in {Ascii[i] : i \in 1..Len(Ascii)} |->
             CHOOSE i \in 1..Len(Ascii) : Ascii[i] = c]

Ord(c) == OrdOf[c]

Uppercase ==
    << "A", "B", "C", "D", "E", "F", "G", "H", "I", "J", "K", "L", "M", "N",
       "O", "P", "Q", "R", "S", "T", "U", "V", "W", "X", "Y", "Z" >>

Lowercase ==
    << "a", "b", "c", "d", "e", "f", "g", "h", "i", "j", "k", "l", "m", "n",
       "o", "p", "q", "r", "s", "t", "u", "v", "w", "x", "y", "z" >>

DigitChars == <<"0", "1", "2", "3", "4", "5", "6", "7", "8", "9">>

IsDigit(c) == \E i \in 1..10 : DigitChars[i] = c

DigitVal(c) == (CHOOSE i \in 1..10 : DigitChars[i] = c) - 1

IsSpace(c) == c = " "

\* str.lower() of each character
LowerOf == [c \in {Ascii[i] : i \in 1..Len(Ascii)} |->
               IF \E i \in 1..Len(Uppercase) : Uppercase[i] = c
               THEN Lowercase[CHOOSE i \in 1..Len(Uppercase) : Uppercase[i] = c]
               ELSE c]

LowerChar(c) == LowerOf[c]

\* str.lower()
lower(s) == [i \in 1..Len(s) |-> LowerChar(s[i])]

RECURSIVE lstrip(_)
lstrip(s) == IF s # <<>> /\ IsSpace(Head(s)) THEN lstrip(Tail(s)) ELSE s

RECURSIVE rstrip(_)
rstrip(s) ==
    IF s # <<>> /\ IsSpace(s[Len(s)]) THEN rstrip(SubSeq(s, 1, Len(s) - 1))
    ELSE s

\* str.strip()
strip(s) == rstrip(lstrip(s))

\* a in b, for two str
Contains(b, a) ==
    \E i \in 0..(Len(b) - Len(a)) : \A j \in 1..Len(a) : b[i + j] = a[j]

\* a < b, for two str (code-point order)
RECURSIVE StrLess(_, _)
StrLess(a, b) ==
    IF b = <<>> THEN FALSE
    ELSE IF a = <<>> THEN TRUE
    ELSE IF Head(a) # Head(b) THEN Ord(Head(a)) < Ord(Head(b))
    ELSE StrLess(Tail(a), Tail(b))

\* sorted(S), for a set of str
RECURSIVE sorted(_)
sorted(S) ==
    IF S = {} THEN <<>>
    ELSE LET m == CHOOSE x \in S : \A y \in S \ {x} : StrLess(x, y)
         IN  <<m>> \o sorted(S \ {m})

\* (v or "")
OrEmpty(v) == IF v = None THEN <<>> ELSE v

\* the decimal digits of a natural number
RECURSIVE Digits(_)
Digits(n) ==
    IF n < 10 THEN <<DigitChars[n + 1]>>
    ELSE Digits(n \div 10) \o <<DigitChars[(n % 10) + 1]>>

RECURSIVE NatOf(_)
NatOf(s) ==
    IF s = <<>> THEN 0
    ELSE 10 * NatOf(SubSeq(s, 1, Len(s) - 1)) + DigitVal(s[Len(s)])

AllDigits(s) == \A i \in 1..Len(s) : IsDigit(s[i])

RECURSIVE Concat(_)
Concat(ss) == IF ss = <<>> THEN <<>> ELSE Head(ss) \o Concat(Tail(ss))

-----------------------------------------------------------------------------
(* Dates *)

IsLeap(y) == (y % 4 = 0 /\ y % 100 # 0) \/ y % 400 = 0

DaysInMonth(y, m) ==
    IF m = 2 THEN (IF IsLeap(y) THEN 29 ELSE 28)
    ELSE IF m \in {4, 6, 9, 11} THEN 30 ELSE 31

\* datetime.date(y, m, d) raises ValueError outside these ranges
ValidDate(y, m, d) ==
    /\ y >= 1 /\ y <= 9999
    /\ m >= 1 /\ m <= 12
    /\ d >= 1 /\ d <= DaysInMonth(y, m)

\* a < b, for two dates
DateLess(a, b) ==
    \/ a[1] < b[1]
    \/ a[1] = b[1] /\ a[2] < b[2]
    \/ a[1] = b[1] /\ a[2] = b[2] /\ a[3] < b[3]

\* s.split(sep), sep one character
RECURSIVE Split(_, _)
Split(s, sep) ==
    IF \A i \in 1..Len(s) : s[i] # sep THEN <<s>>
    ELSE LET i == CHOOSE j \in 1..Len(s) :
                     s[j] = sep /\ \A k \in 1..(j - 1) : s[k] # sep
         IN  <<SubSeq(s, 1, i - 1)>> \o Split(SubSeq(s, i + 1, Len(s)), sep)

\* the directives of the three formats of parse_date and their separator
FormatFields(fmt) ==
    CASE fmt = "%d/%m/%Y" -> [dirs |-> <<"d", "m", "Y">>, sep |-> "/"]
      [] fmt = "%Y-%m-%d" -> [dirs |-> <<"Y", "m", "d">>, sep |-> "-"]
      [] fmt = "%m/%d/%Y" -> [dirs |-> <<"m", "d", "Y">>, sep |-> "/"]

\* whether the whole of t is matched by the regular expression of a directive
\* (_strptime.TimeRE):  %d  3[0-1]|[1-2]\d|0[1-9]|[1-9]| [1-9]
\*                      %m  1[0-2]|0[1-9]|[1-9]
\*                      %Y  \d\d\d\d
DirectiveMatches(dir, t) ==
    CASE dir = "d" ->
            \/ Len(t) \in {1, 2} /\ AllDigits(t) /\ NatOf(t) \in 1..31
            \/ Len(t) = 2 /\ t[1] = " " /\ IsDigit(t[2]) /\ DigitVal(t[2]) >= 1
      [] dir = "m" -> Len(t) \in {1, 2} /\ AllDigits(t) /\ NatOf(t) \in 1..12
      [] dir = "Y" -> Len(t) = 4 /\ AllDigits(t)

DirectiveValue(t) == NatOf(lstrip(t))

ValueError == <<"ValueError">>

\* datetime.strptime(s, fmt).date(), or ValueError
strptime(s, fmt) ==
    LET f     == FormatFields(fmt)
        parts == Split(s, f.sep)
        at(d) == parts[CHOOSE i \in 1..3 : f.dirs[i] = d]
    IN  IF Len(parts) # 3 THEN ValueError
        ELSE IF \E i \in 1..3 : ~DirectiveMatches(f.dirs[i], parts[i])
        THEN ValueError
        ELSE LET y == DirectiveValue(at("Y"))
                 m == DirectiveValue(at("m"))
                 d == DirectiveValue(at("d"))
             IN  IF ValidDate(y, m, d) THEN <<y, m, d>> ELSE ValueError

\* the formats with month/day/year tried first
Formats_month_first == <<"%m/%d/%Y", "%Y-%m-%d", "%d/%m/%Y">>

Formats == <<"%d/%m/%Y", "%Y-%m-%d", "%m/%d/%Y">>

RECURSIVE TryFormats(_, _)
TryFormats(s, i) ==
    IF i > Len(Formats) THEN None
    ELSE LET r == strptime(s, Formats[i])
         IN  IF r # ValueError THEN r ELSE TryFormats(s, i + 1)

parse_date(s) ==
    IF s = None \/ s = <<>> THEN None
    ELSE TryFormats(strip(s), 1)

\* float(s) for the decimal integers, with sign and surrounding blanks;
\* every other str of the model, and None, raises and gives None
to_float(s) ==
    IF s = None THEN None
    ELSE LET t == strip(s)
             neg == t # <<>> /\ Head(t) = "-"
             u == IF t # <<>> /\ Head(t) \in {"-", "+"} THEN Tail(t) ELSE t
         IN  IF u # <<>> /\ AllDigits(u)
             THEN <<(IF neg THEN 0 - NatOf(u) ELSE NatOf(u)), 1>>
             ELSE None

-----------------------------------------------------------------------------
(* Records *)

\* the columns of the CSV file the script reads (Request ID, Requester and
\* Actual Completion Date are read only by the timeline and the table)
Columns ==
    << "Request Name", "Contract Type", "Priority", "Status",
       "Assigned Counsel", "Date Submitted", "Target Completion Date",
       "Turnaround Time (Days)" >>

\* the keys of a loaded row, in insertion order
RowKeys == Columns \o <<"Date Submitted Parsed", "Turnaround Float">>

KeyChars(k) ==
    CASE k = "Request Name" -> <<"R", "e", "q", "u", "e", "s", "t", " ", "N", "a", "m", "e">>
      [] k = "Contract Type" -> <<"C", "o", "n", "t", "r", "a", "c", "t", " ", "T", "y", "p", "e">>
      [] k = "Priority" -> <<"P", "r", "i", "o", "r", "i", "t", "y">>
      [] k = "Status" -> <<"S", "t", "a", "t", "u", "s">>
      [] k = "Assigned Counsel" -> <<"A", "s", "s", "i", "g", "n", "e", "d", " ", "C", "o", "u", "n", "s", "e", "l">>
      [] k = "Date Submitted" -> <<"D", "a", "t", "e", " ", "S", "u", "b", "m", "i", "t", "t", "e", "d">>
      [] k = "Target Completion Date" -> <<"T", "a", "r", "g", "e", "t", " ", "C", "o", "m", "p", "l", "e", "t", "i", "o", "n", " ", "D", "a", "t", "e">>
      [] k = "Turnaround Time (Days)" -> <<"T", "u", "r", "n", "a", "r", "o", "u", "n", "d", " ", "T", "i", "m", "e", " ", "(", "D", "a", "y", "s", ")">>
      [] k = "Date Submitted Parsed" -> <<"D", "a", "t", "e", " ", "S", "u", "b", "m", "i", "t", "t", "e", "d", " ", "P", "a", "r", "s", "e", "d">>
      [] k = "Turnaround Float" -> <<"T", "u", "r", "n", "a", "r", "o", "u", "n", "d", " ", "F", "l", "o", "a", "t">>

\* one row of load_rows
LoadRow(r) ==
    [k \in {RowKeys[i] : i \in 1..Len(RowKeys)} |->
        IF k = "Date Submitted Parsed" THEN parse_date(r["Date Submitted"])
        ELSE IF k = "Turnaround Float" THEN to_float(r["Turnaround Time (Days)"])
        ELSE r[k]]

load_rows(file) == [i \in 1..Len(file) |-> LoadRow(file[i])]

\* the trimmed value of a column, "" for None
Trimmed(r, k) == strip(OrEmpty(r[k]))

unique_values(rs, key) ==
    sorted({Trimmed(rs[i], key) : i \in 1..Len(rs)} \ {<<>>})

FilterKeys == <<"Contract Type", "Priority", "Status", "Assigned Counsel">>

\* the loop over filters.items() of filter_rows, from the i-th key on: FALSE
\* at the first non-empty allow-list the value is not in
RECURSIVE KeepRow(_, _, _)
KeepRow(r, fl, i) ==
    IF i > Len(FilterKeys) THEN TRUE
    ELSE LET allowed == fl[FilterKeys[i]]
         IN  IF allowed # {} /\ Trimmed(r, FilterKeys[i]) \notin allowed
             THEN FALSE
             ELSE KeepRow(r, fl, i + 1)

\* the loop over rows of filter_rows
RECURSIVE FilterLoop(_, _, _, _)
FilterLoop(rs, fl, start, end) ==
    IF rs = <<>> THEN <<>>
    ELSE LET r  == Head(rs)
             ds == r["Date Submitted Parsed"]
             rest == FilterLoop(Tail(rs), fl, start, end)
         IN  IF ds = None \/ DateLess(ds, start) \/ DateLess(end, ds) THEN rest
             ELSE IF KeepRow(r, fl, 1) THEN <<r>> \o rest
             ELSE rest

\* as filter_rows, with the bounds of a reversed interval swapped
filter_rows_swapping(rs, fl, dr) ==
    IF DateLess(dr[2], dr[1]) THEN FilterLoop(rs, fl, dr[2], dr[1])
    ELSE FilterLoop(rs, fl, dr[1], dr[2])

\* as filter_rows, with the loop starting at the second row
filter_rows_from_second(rs, fl, dr) ==
    FilterLoop(IF rs = <<>> THEN rs ELSE Tail(rs), fl, dr[1], dr[2])

filter_rows(rs, fl, dr) == FilterLoop(rs, fl, dr[1], dr[2])

\* repr() of a str of printable ASCII
repr_str(s) ==
    LET has(c) == \E i \in 1..Len(s) : s[i] = c
        q == IF has("'") /\ ~has("\"") THEN "\"" ELSE "'"
        esc(c) == IF c = "\\" \/ c = q THEN <<"\\", c>> ELSE <<c>>
    IN  <<q>> \o Concat([i \in 1..Len(s) |-> esc(s[i])]) \o <<q>>

\* repr() of a float with no fractional part
repr_float(f) ==
    (IF f[1] < 0 THEN <<"-">> ELSE <<>>)
        \o Digits(IF f[1] < 0 THEN 0 - f[1] ELSE f[1]) \o <<".", "0">>

repr_date(d) ==
    <<"d", "a", "t", "e", "t", "i", "m", "e", ".", "d", "a", "t", "e", "(">> \o Digits(d[1]) \o <<",", " ">> \o Digits(d[2]) \o <<",", " ">>
        \o Digits(d[3]) \o <<")">>

repr_value(k, v) ==
    IF v = None THEN <<"N", "o", "n", "e">>
    ELSE IF k = "Date Submitted Parsed" THEN repr_date(v)
    ELSE IF k = "Turnaround Float" THEN repr_float(v)
    ELSE repr_str(v)

\* str(r) of a loaded row
str_row(r) ==
    <<"{">> \o Concat([i \in 1..Len(RowKeys) |->
                      (IF i > 1 THEN <<",", " ">> ELSE <<>>)
                          \o repr_str(KeyChars(RowKeys[i])) \o <<":", " ">>
                          \o repr_value(RowKeys[i], r[RowKeys[i]])])
         \o <<"}">>

\* any(kw.lower() in str(r).lower() for kw in keywords)
KeywordHit(r, kws) ==
    LET text == lower(str_row(r))
    IN  \E i \in 1..Len(kws) : Contains(text, lower(kws[i]))

\* as keyword_filter, stopping at the first row that has a keyword
keyword_filter_first(rs, kws) ==
    LET hits == SelectSeq(rs, LAMBDA r : KeywordHit(r, kws))
    IN  IF kws # <<>> THEN SubSeq(hits, 1, IF hits = <<>> THEN 0 ELSE 1) ELSE rs

\* if keywords: rows = [r for r in rows if any(...)]
keyword_filter(rs, kws) ==
    IF kws # <<>> THEN SelectSeq(rs, LAMBDA r : KeywordHit(r, kws)) ELSE rs

-----------------------------------------------------------------------------
(* Fractions *)

Frac(n, d) == <<n, d>>

FracAdd(a, b) == <<a[1] * b[2] + b[1] * a[2], a[2] * b[2]>>

\* a <= b
FracLeq(a, b) == a[1] * b[2] <= b[1] * a[2]

RECURSIVE FracSum(_)
FracSum(s) == IF s = <<>> THEN <<0, 1>> ELSE FracAdd(Head(s), FracSum(Tail(s)))

\* sum(v) / len(v)
Mean(v) == LET t == FracSum(v) IN <<t[1], t[2] * Len(v)>>

Zero == <<0, 1>>

-----------------------------------------------------------------------------
(* kpi_values *)

CompletedSet == {<<"c", "o", "m", "p", "l", "e", "t", "e", "d">>, <<"d", "o", "n", "e">>, <<"c", "l", "o", "s", "e", "d">>}

OnTimeDays == <<7, 1>>

HighSet == {<<"h", "i", "g", "h">>, <<"u", "r", "g", "e", "n", "t">>}

\* the sentinel of most_common_ct, the one character U+2014
EmDash == <<"EM DASH">>

completed(rs) ==
    SelectSeq(rs, LAMBDA r : lower(Trimmed(r, "Status")) \in CompletedSet)

IsOnTime(r) ==
    r["Turnaround Float"] # None /\ FracLeq(r["Turnaround Float"], OnTimeDays)

on_time(rs) == Len(SelectSeq(completed(rs), IsOnTime))

\* as on_time_pct, over all the rows
on_time_pct_of_total(rs) ==
    IF rs # <<>> THEN <<on_time(rs) * 100, Len(rs)>> ELSE <<0, 1>>

on_time_pct(rs) ==
    IF completed(rs) # <<>> THEN Frac(on_time(rs) * 100, Len(completed(rs)))
    ELSE Zero

\* the list of a column of the rows that pass a test
Column(rs, k) == [i \in 1..Len(rs) |-> rs[i][k]]

\* as turnaround_vals, of the completed rows only
turnaround_vals_completed(rs) ==
    Column(SelectSeq(completed(rs), LAMBDA r : r["Turnaround Float"] # None),
           "Turnaround Float")

turnaround_vals(rs) ==
    Column(SelectSeq(rs, LAMBDA r : r["Turnaround Float"] # None),
           "Turnaround Float")

avg_turnaround(rs) ==
    IF turnaround_vals(rs) # <<>> THEN Mean(turnaround_vals(rs)) ELSE Zero

\* Counter(xs): the keys in the order first seen, and the count of each
RECURSIVE CounterKeys(_)
CounterKeys(xs) ==
    IF xs = <<>> THEN <<>>
    ELSE LET init == CounterKeys(SubSeq(xs, 1, Len(xs) - 1))
             x == xs[Len(xs)]
         IN  IF \E i \in 1..Len(init) : init[i] = x THEN init
             ELSE Append(init, x)

Count(xs, x) == Cardinality({i \in 1..Len(xs) : xs[i] = x})

\* Counter(xs).most_common(1)[0][0]: max() keeps the first key of the
\* greatest count
MostCommon(xs) ==
    LET keys == CounterKeys(xs)
        i == CHOOSE j \in 1..Len(keys) :
                 /\ \A l \in 1..Len(keys) : Count(xs, keys[l]) <= Count(xs, keys[j])
                 /\ \A l \in 1..(j - 1) : Count(xs, keys[l]) < Count(xs, keys[j])
    IN  keys[i]

contract_types(rs) ==
    LET named == SelectSeq(rs, LAMBDA r : Trimmed(r, "Contract Type") # <<>>)
    IN  [i \in 1..Len(named) |-> Trimmed(named[i], "Contract Type")]

most_common_ct(rs) ==
    IF contract_types(rs) # <<>> THEN MostCommon(contract_types(rs)) ELSE EmDash

high_priority(rs) ==
    Len(SelectSeq(rs, LAMBDA r : lower(OrEmpty(r["Priority"])) \in HighSet))

high_priority_pct(rs) ==
    IF Len(rs) # 0 THEN Frac(high_priority(rs) * 100, Len(rs)) ELSE Zero

\* the test of the overdue sums (app.py:86-89 and 423-426)
IsOverdue(r, now) ==
    /\ lower(OrEmpty(r["Status"])) \notin CompletedSet
    /\ r["Target Completion Date"] # None
    /\ r["Target Completion Date"] # <<>>
    /\ parse_date(r["Target Completion Date"]) # None
    /\ DateLess(parse_date(r["Target Completion Date"]), now)

overdue(rs, now) == Len(SelectSeq(rs, LAMBDA r : IsOverdue(r, now)))

kpi_values(rs, now) ==
    [ total |-> Len(rs),
      avg_turnaround |-> avg_turnaround(rs),
      on_time_pct |-> on_time_pct(rs),
      most_common_ct |-> most_common_ct(rs),
      high_priority_pct |-> high_priority_pct(rs),
      overdue |-> overdue(rs, now) ]

-----------------------------------------------------------------------------
(* The counsel tabs *)

\* counsel_data of counsel_performance_chart: the counsel in the order first
\* seen, each with the turnarounds appended for it
ChartCounsel(r) ==
    strip(IF r["Assigned Counsel"] = None \/ r["Assigned Counsel"] = <<>>
          THEN <<"U", "n", "a", "s", "s", "i", "g", "n", "e", "d">> ELSE r["Assigned Counsel"])

ChartRows(rs) ==
    SelectSeq(rs, LAMBDA r : ChartCounsel(r) # <<>> /\ r["Turnaround Float"] # None)

counsel_performance(rs) ==
    LET used == ChartRows(rs)
        keys == CounterKeys([i \in 1..Len(used) |-> ChartCounsel(used[i])])
    IN  [i \in 1..Len(keys) |->
            LET v == Column(SelectSeq(used, LAMBDA r : ChartCounsel(r) = keys[i]),
                            "Turnaround Float")
            IN  [Counsel |-> keys[i], AverageTurnaround |-> Mean(v), Cases |-> Len(v)]]

\* Counter([r.get("Assigned Counsel", "") for r in rows])
counsel_counts(rs) == CounterKeys(Column(rs, "Assigned Counsel"))

counsel_rows(rs, counsel) ==
    SelectSeq(rs, LAMBDA r : Trimmed(r, "Assigned Counsel") = counsel)

CounselCompleted(rs) ==
    Len(SelectSeq(rs, LAMBDA r : lower(OrEmpty(r["Status"])) \in CompletedSet))

counsel_stat(rs, counsel, now) ==
    LET mine == counsel_rows(rs, counsel)
    IN  [ Counsel |-> counsel,
          TotalCases |-> Len(mine),
          AvgTurnaround |-> IF turnaround_vals(mine) # <<>>
                            THEN Mean(turnaround_vals(mine))
                            ELSE Zero,
          CompletionPct |-> IF mine # <<>>
                            THEN Frac(CounselCompleted(mine) * 100, Len(mine))
                            ELSE Zero,
          Overdue |-> overdue(mine, now) ]

counsel_stats_of(rs, now) ==
    LET keys == counsel_counts(rs)
    IN  [i \in 1..Len(keys) |-> counsel_stat(rs, keys[i], now)]

-----------------------------------------------------------------------------
(* The sidebar *)

ParsedDates(rs) ==
    {rs[i]["Date Submitted Parsed"] :
        i \in {j \in 1..Len(rs) : rs[j]["Date Submitted Parsed"] # None}}

min_date(rs) ==
    IF ParsedDates(rs) # {}
    THEN CHOOSE d \in ParsedDates(rs) : \A e \in ParsedDates(rs) : ~DateLess(e, d)
    ELSE <<2025, 1, 1>>

max_date(rs) ==
    IF ParsedDates(rs) # {}
    THEN CHOOSE d \in ParsedDates(rs) : \A e \in ParsedDates(rs) : ~DateLess(d, e)
    ELSE <<2025, 12, 31>>

Range(s) == {s[i] : i \in 1..Len(s)}

\* the default of a multiselect: the first three contract types, every
\* value of the other columns
DefaultSelection(rs, k) ==
    LET options == unique_values(rs, k)
    IN  IF k = "Contract Type"
        THEN Range(SubSeq(options, 1, IF Len(options) < 3 THEN Len(options) ELSE 3))
        ELSE Range(options)

Untouched == [touched |-> FALSE, chosen |-> {}]

\* what st.date_input returns: the default until the user picks, then the
\* one or two dates picked, in the order the widget holds them (app.py
\* reads the tuple as it comes and checks neither its length nor its order)
DateInput(rs, picked) ==
    IF picked = <<>> THEN <<min_date(rs), max_date(rs)>> ELSE picked

\* what st.multiselect returns
Multiselect(rs, k, sel) ==
    IF sel.touched THEN sel.chosen ELSE DefaultSelection(rs, k)

\* whether date_input can return the dates picked: each lies between
\* min_value and max_value
DatesPossible(lo, hi, picked) ==
    \A i \in 1..Len(picked) : ~DateLess(picked[i], lo) /\ ~DateLess(hi, picked[i])

-----------------------------------------------------------------------------
(* The script *)

\* the state before the script runs, for a file, a widget state and a day
Start(file, u, now) ==
    /\ pc = "load"
    /\ csv = file
    /\ ui = u
    /\ today = now
    /\ rows_all = <<>>
    /\ date_range = <<>>
    /\ filters = [k \in Range(FilterKeys) |-> {}]
    /\ keywords = <<>>
    /\ rows = <<>>
    /\ kpis = <<>>
    /\ counsel_data = <<>>
    /\ counsel_stats = <<>>
    /\ error = "none"

\* rows_all = load_rows(CSV_PATH)
LoadRows ==
    /\ pc = "load"
    /\ rows_all' = load_rows(csv)
    /\ pc' = "sidebar"
    /\ UNCHANGED <<csv, ui, today, date_range, filters, keywords, rows, kpis,
                   counsel_data, counsel_stats, error>>

\* with st.sidebar: ... filters = {...}
Sidebar ==
    /\ pc = "sidebar"
    /\ date_range' = DateInput(rows_all, ui.dates)
    /\ filters' = [k \in Range(FilterKeys) |-> Multiselect(rows_all, k, ui.sel[k])]
    /\ keywords' = ui.keywords
    /\ pc' = "filter"
    /\ UNCHANGED <<csv, ui, today, rows_all, rows, kpis, counsel_data,
                   counsel_stats, error>>

\* rows = filter_rows(rows_all, filters, date_range); the unpacking of a
\* date_range of one date raises ValueError and ends the run
ApplyFilters ==
    /\ pc = "filter"
    /\ IF Len(date_range) # 2
       THEN /\ error' = "ValueError"
            /\ pc' = "done"
            /\ UNCHANGED rows
       ELSE /\ rows' = filter_rows(rows_all, filters, date_range)
            /\ pc' = "keyword"
            /\ UNCHANGED error
    /\ UNCHANGED <<csv, ui, today, rows_all, date_range, filters, keywords,
                   kpis, counsel_data, counsel_stats>>

\* if keywords: rows = [...]
ApplyKeywords ==
    /\ pc = "keyword"
    /\ rows' = keyword_filter(rows, keywords)
    /\ pc' = "kpi"
    /\ UNCHANGED <<csv, ui, today, rows_all, date_range, filters, keywords,
                   kpis, counsel_data, counsel_stats, error>>

\* kpis = kpi_values(rows)
Kpis ==
    /\ pc = "kpi"
    /\ kpis' = kpi_values(rows, today)
    /\ pc' = "tab2"
    /\ UNCHANGED <<csv, ui, today, rows_all, date_range, filters, keywords,
                   rows, counsel_data, counsel_stats, error>>

\* counsel_performance_chart(rows)
PerformanceTab ==
    /\ pc = "tab2"
    /\ counsel_data' = counsel_performance(rows)
    /\ pc' = "tab3"
    /\ UNCHANGED <<csv, ui, today, rows_all, date_range, filters, keywords,
                   rows, kpis, counsel_stats, error>>

\* with tab3: the detailed counsel metrics
CounselTab ==
    /\ pc = "tab3"
    /\ counsel_stats' = counsel_stats_of(rows, today)
    /\ pc' = "done"
    /\ UNCHANGED <<csv, ui, today, rows_all, date_range, filters, keywords,
                   rows, kpis, counsel_data, error>>

Next ==
    \/ LoadRows
    \/ Sidebar
    \/ ApplyFilters
    \/ ApplyKeywords
    \/ Kpis
    \/ PerformanceTab
    \/ CounselTab

-----------------------------------------------------------------------------
(* The inputs of the runs checked *)

Row(name, ct, pr, st, ac, ds, tcd, tat) ==
    [k \in Range(Columns) |->
        CASE k = "Request Name" -> name
          [] k = "Contract Type" -> ct
          [] k = "Priority" -> pr
          [] k = "Status" -> st
          [] k = "Assigned Counsel" -> ac
          [] k = "Date Submitted" -> ds
          [] k = "Target Completion Date" -> tcd
          [] k = "Turnaround Time (Days)" -> tat]

\* the files of at most n rows of a pool
RECURSIVE Files(_, _)
Files(pool, n) ==
    IF n = 0 THEN {<<>>}
    ELSE LET shorter == Files(pool, n - 1)
         IN  shorter \cup {Append(f, r) : f \in shorter, r \in pool}

\* the widget states of the given picks that the rows of a file allow: the
\* dates lie in the range of date_input, the values chosen are options of
\* their multiselect
UiStates(file, datePicks, selections, keywordLists) ==
    LET rs == load_rows(file)
        lo == min_date(rs)
        hi == max_date(rs)
        options == [k \in Range(FilterKeys) |-> Range(unique_values(rs, k))]
    IN  [ dates : {d \in datePicks : DatesPossible(lo, hi, d)},
          sel : {s \in selections :
                    \A k \in Range(FilterKeys) : s[k].chosen \subseteq options[k]},
          keywords : keywordLists ]

NothingPicked == {[k \in Range(FilterKeys) |-> Untouched]}

Cleared == {[k \in Range(FilterKeys) |-> [touched |-> TRUE, chosen |-> {}]]}

JuneFirst == <<2025, 6, 1>>

-----------------------------------------------------------------------------
(* Runs over the date formats: one row, the submission date varies *)

DateTokens ==
    {<<"0", "3">>, <<"3">>, <<"1", "3">>, <<"3", "1">>, <<"2", "9">>, <<" ", "3">>, <<"0", "4">>, <<"0", "2">>, <<"0", "0">>}

YearTokens == {<<"2", "0", "2", "5">>, <<"2", "0", "2", "4">>, <<"2", "5">>}

DateStrings ==
    {a \o <<"/">> \o b \o <<"/">> \o y : a \in DateTokens, b \in DateTokens, y \in YearTokens}
    \cup {y \o <<"-">> \o a \o <<"-">> \o b : a \in DateTokens, b \in DateTokens, y \in YearTokens}
    \cup {None, <<>>, <<" ", " ", " ">>, <<" ", "0", "3", "/", "0", "4", "/", "2", "0", "2", "5", " ">>, <<"0", "3", "/", "0", "4", "/", "2", "0", "2", "5", "x">>, <<"2", "0", "2", "5", "/", "0", "4", "/", "0", "3">>,
          <<"0", "3", "-", "0", "4", "-", "2", "0", "2", "5">>, <<"n", "/", "a">>, <<"0", "3", "/", "0", "4", "/", "2", "0", "2", "5", "5">>, <<"0", "0", "0", "0", "-", "0", "1", "-", "0", "1">>, <<"0", "1", "/", "0", "1", "/", "0", "0", "0", "0">>,
          <<"3", "/", "4">>, <<"0", "3", "/", "0", "4", "/", "2", "0", "2", "5", "/", "1">>, <<"0", "0", "3", "/", "0", "4", "/", "2", "0", "2", "5">>, <<"1", " ", "/", "2", "/", "2", "0", "2", "5">>}

DateRow(s) == Row(<<"L", "e", "a", "s", "e">>, <<"N", "D", "A">>, <<"H", "i", "g", "h">>, <<"O", "p", "e", "n">>, <<"A", "n", "n">>, s, <<>>, <<"5">>)

InitDate ==
    \E s \in DateStrings :
        \E u \in UiStates(<<DateRow(s)>>, {<<>>}, NothingPicked, {<<>>}) :
            Start(<<DateRow(s)>>, u, JuneFirst)

SpecDate == InitDate /\ [][Next]_vars

\* the ways strftime-like formatting writes a component that %d, %m and %Y
\* accept: bare, zero-padded, and for the day blank-padded
C4_DayForms(d) ==
    {Digits(d)} \cup (IF d < 10 THEN {<<"0">> \o Digits(d), <<" ">> \o Digits(d)} ELSE {})

C4_MonthForms(m) ==
    {Digits(m)} \cup (IF m < 10 THEN {<<"0">> \o Digits(m)} ELSE {})

C4_Calendar == <<31, 28, 31, 30, 31, 30, 31, 31, 30, 31, 30, 31>>

\* the dates of the years the inputs name
C4_Dates ==
    {<<y, m, d>> : y \in {2024, 2025}, m \in 1..12, d \in 1..31} \cap
    {t \in ({2024, 2025} \X (1..12) \X (1..31)) :
        t[3] <= C4_Calendar[t[2]] + (IF t[2] = 2 /\ t[1] = 2024 THEN 1 ELSE 0)}

\* the texts that are date t written day/month/year, ISO, month/day/year
C4_Written(fmt, t) ==
    CASE fmt = 1 -> {d \o <<"/">> \o m \o <<"/">> \o Digits(t[1]) :
                        d \in C4_DayForms(t[3]), m \in C4_MonthForms(t[2])}
      [] fmt = 2 -> {Digits(t[1]) \o <<"-">> \o m \o <<"-">> \o d :
                        d \in C4_DayForms(t[3]), m \in C4_MonthForms(t[2])}
      [] fmt = 3 -> {m \o <<"/">> \o d \o <<"/">> \o Digits(t[1]) :
                        d \in C4_DayForms(t[3]), m \in C4_MonthForms(t[2])}

C4_Reads(fmt, s) == {t \in C4_Dates : s \in C4_Written(fmt, t)}

C4_Expected(s) ==
    IF s = None \/ s = <<>> THEN None
    ELSE LET t == strip(s)
         IN  IF C4_Reads(1, t) # {} THEN CHOOSE d \in C4_Reads(1, t) : TRUE
             ELSE IF C4_Reads(2, t) # {} THEN CHOOSE d \in C4_Reads(2, t) : TRUE
             ELSE IF C4_Reads(3, t) # {} THEN CHOOSE d \in C4_Reads(3, t) : TRUE
             ELSE None

\* C4: parse_date gives the date of the first of day/month/year, ISO and
\* month/day/year that the whole trimmed text is written in, 3 April 2025
\* for "03/04/2025", month/day/year only where day/month/year does not read
\* the text, and None (never an error) for None, "" and any other text.
C4_DatePriority ==
    pc = "sidebar" =>
        LET s == csv[1]["Date Submitted"]
            got == rows_all[1]["Date Submitted Parsed"]
        IN  /\ got = C4_Expected(s)
            /\ s = <<"0", "3", "/", "0", "4", "/", "2", "0", "2", "5">> => got = <<2025, 4, 3>>
            /\ got # None /\ C4_Reads(1, strip(s)) = {} /\ C4_Reads(2, strip(s)) = {}
                  => got \in C4_Reads(3, strip(s))

\* the ambiguous text has been read
C4_Witness ==
    /\ pc = "sidebar"
    /\ csv[1]["Date Submitted"] = <<"0", "3", "/", "0", "4", "/", "2", "0", "2", "5">>
    /\ rows_all[1]["Date Submitted Parsed"] = <<2025, 4, 3>>

-----------------------------------------------------------------------------
(* Runs over the filters: contract type, priority, submission date and the
   text searched vary *)

FilterPool ==
    { Row(<<"N", "D", "A", " ", "r", "e", "v", "i", "e", "w">>, <<"N", "D", "A">>, <<"H", "i", "g", "h">>, <<"O", "p", "e", "n">>, <<"A", "n", "n">>, <<"0", "1", "/", "0", "2", "/", "2", "0", "2", "5">>, <<>>, <<"5">>),
      Row(<<"L", "e", "a", "s", "e">>, <<" ", "N", "D", "A", " ">>, <<"L", "o", "w">>, <<"O", "p", "e", "n">>, <<"A", "n", "n">>, <<"2", "0", "2", "5", "-", "0", "3", "-", "0", "1">>, <<>>, <<>>),
      Row(<<"S", "u", "p", "p", "l", "y">>, <<"M", "S", "A">>, <<"H", "i", "g", "h">>, <<"O", "p", "e", "n">>, <<"A", "n", "n">>, <<"0", "3", "/", "1", "3", "/", "2", "0", "2", "5">>, <<>>, <<"5">>),
      Row(<<"M", "i", "s", "c">>, <<>>, None, <<"O", "p", "e", "n">>, <<"A", "n", "n">>, <<"1", "5", "/", "0", "1", "/", "2", "0", "2", "5">>, <<>>, <<"5">>),
      Row(<<"O", "l", "d", " ", "m", "s", "a">>, <<"M", "S", "A">>, <<"L", "o", "w">>, <<"O", "p", "e", "n">>, <<"A", "n", "n">>, <<"n", "/", "a">>, <<>>, <<"5">>) }

FebFirst == <<2025, 2, 1>>

MarFirst == <<2025, 3, 1>>

\* the default, a range, a range the wrong way round, one day, and the
\* single date date_input returns between the two clicks of a range
FilterDatePicks ==
    {<<>>, <<FebFirst, MarFirst>>, <<MarFirst, FebFirst>>, <<FebFirst, FebFirst>>,
     <<FebFirst>>}

Chosen(c) == [touched |-> TRUE, chosen |-> c]

FilterSelections ==
    {[k \in Range(FilterKeys) |->
        IF k = "Contract Type" THEN a ELSE IF k = "Priority" THEN b ELSE Untouched] :
        a \in {Untouched, Chosen({}), Chosen({<<"N", "D", "A">>}), Chosen({<<"N", "D", "A">>, <<"M", "S", "A">>})},
        b \in {Untouched, Chosen({}), Chosen({<<"H", "i", "g", "h">>})}}

FilterKeywords == {<<>>, <<<<"n", "d", "a">>>>, <<<<"N", "O", "N", "E">>, <<"s", "u", "p", "p", "l", "y">>>>}

InitFilter ==
    \E file \in Files(FilterPool, MaxRows) :
        \E u \in UiStates(file, FilterDatePicks, FilterSelections, FilterKeywords) :
            Start(file, u, JuneFirst)

SpecFilter == InitFilter /\ [][Next]_vars

C1_Day(d) == d[1] * 10000 + d[2] * 100 + d[3]

C1_Passes(r) ==
    /\ r["Date Submitted Parsed"] # None
    /\ C1_Day(date_range[1]) <= C1_Day(r["Date Submitted Parsed"])
    /\ C1_Day(r["Date Submitted Parsed"]) <= C1_Day(date_range[2])
    /\ \A k \in Range(FilterKeys) :
          filters[k] # {} => strip(OrEmpty(r[k])) \in filters[k]

\* C1: filter_rows returns exactly the records whose parsed submission date
\* is present with start <= date <= end and whose trimmed value of every
\* field with a non-empty allow-set is in the set; an empty allow-set
\* excludes no record, and a record with no parsed date is never returned.
C1_FilterExact ==
    pc = "keyword" =>
        /\ rows = SelectSeq(rows_all, C1_Passes)
        /\ \A i \in 1..Len(rows) : rows[i]["Date Submitted Parsed"] # None

\* one record of two in range is excluded by the priorities allowed while
\* the empty list of contract types excludes none
C1_Witness ==
    /\ pc = "keyword"
    /\ filters["Contract Type"] = {}
    /\ filters["Priority"] # {}
    /\ Len(rows_all) = 2
    /\ \A i \in 1..2 :
          /\ rows_all[i]["Date Submitted Parsed"] # None
          /\ ~DateLess(rows_all[i]["Date Submitted Parsed"], date_range[1])
          /\ ~DateLess(date_range[2], rows_all[i]["Date Submitted Parsed"])
    /\ Len(rows) = 1

\* C2: filtering is idempotent: the filter with the same criteria applied
\* to its own result gives the same sequence of records.
C2_Idempotent ==
    pc = "kpi" =>
        keyword_filter(filter_rows(rows, filters, date_range), keywords) = rows

\* the filters and the keywords have removed one record of two
C2_Witness ==
    /\ pc = "kpi"
    /\ keywords # <<>>
    /\ \E k \in Range(FilterKeys) : filters[k] # {}
    /\ Len(rows_all) = 2
    /\ Len(rows) = 1

C3_Date(rs) ==
    SelectSeq(rs, LAMBDA r :
        /\ r["Date Submitted Parsed"] # None
        /\ ~DateLess(r["Date Submitted Parsed"], date_range[1])
        /\ ~DateLess(date_range[2], r["Date Submitted Parsed"]))

C3_Categories(rs) ==
    SelectSeq(rs, LAMBDA r :
        \A k \in Range(FilterKeys) : filters[k] = {} \/ Trimmed(r, k) \in filters[k])

C3_Keywords(rs) ==
    SelectSeq(rs, LAMBDA r :
        keywords = <<>> \/ LET text == lower(str_row(r))
                           IN  \E i \in 1..Len(keywords) :
                                   Contains(text, lower(keywords[i])))

\* C3: the date, category and keyword predicates are conjunctive and
\* commute: applied in any order to the records loaded they leave the
\* records the script leaves (filter_rows, then the keywords).
C3_Commutes ==
    pc = "kpi" =>
        /\ rows = C3_Keywords(C3_Categories(C3_Date(rows_all)))
        /\ rows = C3_Keywords(C3_Date(C3_Categories(rows_all)))
        /\ rows = C3_Categories(C3_Keywords(C3_Date(rows_all)))
        /\ rows = C3_Categories(C3_Date(C3_Keywords(rows_all)))
        /\ rows = C3_Date(C3_Keywords(C3_Categories(rows_all)))
        /\ rows = C3_Date(C3_Categories(C3_Keywords(rows_all)))
        /\ rows = filter_rows(keyword_filter(rows_all, keywords), filters, date_range)

\* each of the three predicates alone removes a record, and one is left
C3_Witness ==
    /\ pc = "kpi"
    /\ keywords # <<>>
    /\ C3_Keywords(rows_all) # rows_all
    /\ C3_Date(rows_all) # rows_all
    /\ C3_Categories(rows_all) # rows_all
    /\ Len(rows_all) = MaxRows

\* C9: criteria whose interval has start > end are rejected with
\* ConfigError; the filter never runs on such an interval.
C9_Rejected ==
    (/\ pc \notin {"load", "sidebar", "filter"}
     /\ Len(date_range) = 2
     /\ DateLess(date_range[2], date_range[1]))
        => error = "ConfigError"

-----------------------------------------------------------------------------
(* Runs over the KPIs: status, turnaround and target date vary *)

MaxKpiRows == 3

KpiRow(st, tat, tcd) ==
    Row(<<"L", "e", "a", "s", "e">>, <<"N", "D", "A">>, <<"H", "i", "g", "h">>, st, <<"A", "n", "n">>, <<"0", "1", "/", "0", "2", "/", "2", "0", "2", "5">>, tcd, tat)

KpiPool ==
    { KpiRow(<<"C", "o", "m", "p", "l", "e", "t", "e", "d">>, <<"5">>, <<>>),
      KpiRow(<<"O", "p", "e", "n">>, <<"1", "0">>, <<"3", "1", "/", "0", "5", "/", "2", "0", "2", "5">>),
      KpiRow(<<"C", "l", "o", "s", "e", "d">>, <<"7">>, <<"0", "1", "/", "0", "6", "/", "2", "0", "2", "5">>),
      KpiRow(<<" ", "d", "o", "n", "e", " ">>, <<"8">>, <<"2", "0", "2", "5", "-", "0", "5", "-", "3", "1">>),
      KpiRow(<<"O", "p", "e", "n">>, <<>>, <<"0", "1", "/", "0", "6", "/", "2", "0", "2", "5">>),
      KpiRow(<<"C", "O", "M", "P", "L", "E", "T", "E", "D">>, <<"a", "b", "c">>, <<"0", "2", "/", "0", "6", "/", "2", "0", "2", "5">>),
      KpiRow(<<>>, <<"3">>, <<"s", "o", "o", "n">>),
      KpiRow(None, <<" ", "7", " ">>, None) }

InitKpi ==
    \E file \in Files(KpiPool, MaxKpiRows) :
        \E u \in UiStates(file, {<<>>}, Cleared, {<<>>}) :
            Start(file, u, JuneFirst)

SpecKpi == InitKpi /\ [][Next]_vars

\* the rows of the completed statuses, and those of them on time
Kpi_Done ==
    {i \in 1..Len(rows) :
        lower(strip(OrEmpty(rows[i]["Status"]))) \in {<<"c", "o", "m", "p", "l", "e", "t", "e", "d">>, <<"d", "o", "n", "e">>, <<"c", "l", "o", "s", "e", "d">>}}

Kpi_Timely ==
    {i \in Kpi_Done :
        /\ rows[i]["Turnaround Float"] # None
        /\ rows[i]["Turnaround Float"][1] <= 7 * rows[i]["Turnaround Float"][2]}

\* C6: on_time_pct is on_time_count / completed_count * 100 over the
\* records whose trimmed, case-folded status is completed, done or closed,
\* on time meaning a present turnaround <= 7; it is 0 when none is
\* completed, and lies between 0 and 100 since on_time <= completed <= total.
C6_OnTimePct ==
    pc = "tab2" =>
        LET p == kpis.on_time_pct
        IN  /\ p[2] > 0
            /\ Kpi_Done = {} => p[1] = 0
            /\ Kpi_Done # {} =>
                  p[1] * Cardinality(Kpi_Done) = Cardinality(Kpi_Timely) * 100 * p[2]
            /\ 0 <= p[1] /\ p[1] <= 100 * p[2]
            /\ Cardinality(Kpi_Timely) <= Cardinality(Kpi_Done)
            /\ Cardinality(Kpi_Done) <= kpis.total

\* records and none of them completed: the percentage is 0
C6_Witness ==
    /\ pc = "tab2"
    /\ Len(rows) = MaxKpiRows
    /\ Kpi_Done = {}
    /\ kpis.on_time_pct[1] = 0

Kpi_Timed == {i \in 1..Len(rows) : rows[i]["Turnaround Float"] # None}

RECURSIVE Kpi_Total(_)
Kpi_Total(S) ==
    IF S = {} THEN <<0, 1>>
    ELSE LET i == CHOOSE j \in S : TRUE
             t == Kpi_Total(S \ {i})
             v == rows[i]["Turnaround Float"]
         IN  <<v[1] * t[2] + t[1] * v[2], v[2] * t[2]>>

C7_Scenario ==
    /\ Len(rows) = 3
    /\ rows[1]["Status"] = <<"C", "o", "m", "p", "l", "e", "t", "e", "d">> /\ rows[1]["Turnaround Time (Days)"] = <<"5">>
    /\ rows[2]["Status"] = <<"O", "p", "e", "n">> /\ rows[2]["Turnaround Time (Days)"] = <<"1", "0">>
    /\ rows[3]["Status"] = <<"C", "l", "o", "s", "e", "d">> /\ rows[3]["Turnaround Time (Days)"] = <<"7">>

\* C7: avg_turnaround is the mean of the present turnarounds of all the
\* records, completed or not, and 0 when there is none, while the on-time
\* percentage divides by the completed records; Completed/5, Open/10,
\* Closed/7 give total 3, 2 completed, 2 on time, 100 percent, mean 22/3.
C7_AvgTurnaround ==
    pc = "tab2" =>
        LET a == kpis.avg_turnaround
            t == Kpi_Total(Kpi_Timed)
        IN  /\ a[2] > 0
            /\ Kpi_Timed = {} => a[1] = 0
            /\ Kpi_Timed # {} => a[1] * t[2] * Cardinality(Kpi_Timed) = t[1] * a[2]
            /\ C7_Scenario =>
                  /\ kpis.total = 3
                  /\ Len(completed(rows)) = 2
                  /\ on_time(rows) = 2
                  /\ kpis.on_time_pct[1] = 100 * kpis.on_time_pct[2]
                  /\ 3 * a[1] = 22 * a[2]

\* the KPIs of the three-row scenario
C7_Witness ==
    /\ pc = "tab2"
    /\ C7_Scenario
    /\ kpis.total = 3

\* C8: overdue counts the records whose trimmed, case-folded status is not
\* completed, done or closed and whose target date parses and is strictly
\* before today, so no record completed for the on-time KPI is overdue.
C8_Overdue ==
    pc = "tab2" =>
        kpis.overdue =
            Cardinality({i \in 1..Len(rows) :
                /\ i \notin Kpi_Done
                /\ parse_date(rows[i]["Target Completion Date"]) # None
                /\ DateLess(parse_date(rows[i]["Target Completion Date"]), today)})

-----------------------------------------------------------------------------
(* Runs over the contract types *)

MaxTypeRows == 4

TypeRow(ct) == Row(<<"L", "e", "a", "s", "e">>, ct, <<"H", "i", "g", "h">>, <<"O", "p", "e", "n">>, <<"A", "n", "n">>, <<"0", "1", "/", "0", "2", "/", "2", "0", "2", "5">>, <<>>, <<"5">>)

TypePool == {TypeRow(<<"B">>), TypeRow(<<"A">>), TypeRow(<<" ", "A", " ">>), TypeRow(<<>>)}

InitTypes ==
    \E file \in Files(TypePool, MaxTypeRows) :
        \E u \in UiStates(file, {<<>>}, Cleared, {<<>>}) :
            Start(file, u, JuneFirst)

SpecTypes == InitTypes /\ [][Next]_vars

C5_Types == {Trimmed(rows[i], "Contract Type") : i \in 1..Len(rows)} \ {<<>>}

C5_Count(v) ==
    Cardinality({i \in 1..Len(rows) : Trimmed(rows[i], "Contract Type") = v})

C5_Best == {v \in C5_Types : \A w \in C5_Types : C5_Count(w) <= C5_Count(v)}

\* C5: most_common_ct is the trimmed non-empty Contract Type of the highest
\* frequency, the lexicographically smallest of those that tie whatever the
\* order of the records, and the sentinel when there is none.
C5_LexTieBreak ==
    pc = "tab2" =>
        kpis.most_common_ct =
            IF C5_Types = {} THEN EmDash
            ELSE CHOOSE v \in C5_Best : \A w \in C5_Best \ {v} : StrLess(v, w)

-----------------------------------------------------------------------------
(* Runs over the counsel *)

MaxCounselRows == 3

CounselRow(ac, tat) ==
    Row(<<"L", "e", "a", "s", "e">>, <<"N", "D", "A">>, <<"H", "i", "g", "h">>, <<"O", "p", "e", "n">>, ac, <<"0", "1", "/", "0", "2", "/", "2", "0", "2", "5">>, <<>>, tat)

CounselPool ==
    { CounselRow(<<"A", "n", "n">>, <<"5">>), CounselRow(<<"A", "n", "n">>, <<"9">>), CounselRow(<<"A", "n", "n", " ">>, <<"3">>),
      CounselRow(<<"B", "o", "b">>, <<>>), CounselRow(<<>>, <<"4">>), CounselRow(None, <<"5">>) }

InitCounsel ==
    \E file \in Files(CounselPool, MaxCounselRows) :
        \E u \in UiStates(file, {<<>>}, Cleared \cup NothingPicked, {<<>>}) :
            Start(file, u, JuneFirst)

SpecCounsel == InitCounsel /\ [][Next]_vars

C10_Members(counsel) ==
    {i \in 1..Len(rows) : Trimmed(rows[i], "Assigned Counsel") = counsel}

RECURSIVE C10_Cases(_)
C10_Cases(stats) ==
    IF stats = <<>> THEN 0 ELSE Head(stats).TotalCases + C10_Cases(Tail(stats))

\* C10: the detailed counsel metrics partition the records by Assigned
\* Counsel: the Total Cases sum to the number of records, each average is
\* the mean of the present turnarounds of its partition, 0 where it has none.
C10_Partition ==
    pc = "done" /\ error = "none" =>
        /\ C10_Cases(counsel_stats) = Len(rows)
        /\ \A n \in 1..Len(counsel_stats) :
              LET s == counsel_stats[n]
                  timed == C10_Members(s.Counsel) \cap Kpi_Timed
                  t == Kpi_Total(timed)
              IN  /\ s.TotalCases = Cardinality(C10_Members(s.Counsel))
                  /\ timed = {} => s.AvgTurnaround[1] = 0
                  /\ timed # {} =>
                        s.AvgTurnaround[1] * t[2] * Cardinality(timed)
                            = t[1] * s.AvgTurnaround[2]

-----------------------------------------------------------------------------
(* Every run above *)

Init == InitDate \/ InitFilter \/ InitKpi \/ InitTypes \/ InitCounsel

Spec == Init /\ [][Next]_vars

=============================================================================
